---- MODULE Spec2Model ----
(***************************************************************************)
(* Model of src/nuclear/binding_energy.py (n0sync/pysics): the SEMF engine *)
(* and the calculators built on it.                                        *)
(*                                                                         *)
(* Numbers.  Python floats are modelled in fixed point: energies in        *)
(* thousandths of an MeV, masses in millionths of an atomic mass unit.     *)
(* math.sqrt(A), A**(1/3) and A**(2/3) are integer roots carried to three  *)
(* decimals, every division truncates.  A Python value is a record         *)
(*   [kind, val, exc, msg]  with kind "float", "int", "list", "complex"    *)
(* (a negative base raised to a fractional power), "bool", "dict" or        *)
(* "raise".  A dict is a sequence of <<key, value>> pairs in insertion     *)
(* order.  NUCLEAR_DATA is the module's table of that name.                *)
(***************************************************************************)
EXTENDS Integers, Sequences, FiniteSets, TLC

VARIABLES pc, call, result, NUCLEAR_DATA, held, earlier, threads, frames

vars == <<pc, call, result, NUCLEAR_DATA, held, earlier, threads, frames>>

(***************************************************************************)
(* Bounds of the explored inputs.                                          *)
(***************************************************************************)
MaxNegA == 3
MaxA == 7
MaxZ == 8
HeavyZ == 250
MaxRange == 6
MaxMassNumber == 120
NumThreads == 2

(***************************************************************************)
(* Python values.                                                          *)
(***************************************************************************)
Float(v) == [kind |-> "float", val |-> v, exc |-> "", msg |-> <<>>]

IntV(v) == [kind |-> "int", val |-> v, exc |-> "", msg |-> <<>>]

ListV(s) == [kind |-> "list", val |-> s, exc |-> "", msg |-> <<>>, id |-> ""]

ComplexV == [kind |-> "complex", val |-> 0, exc |-> "", msg |-> <<>>]

Raise(e, m) == [kind |-> "raise", val |-> 0, exc |-> e, msg |-> m]

NoneV == [kind |-> "none", val |-> 0, exc |-> "", msg |-> <<>>]

BoolV(b) == [kind |-> "bool", val |-> b, exc |-> "", msg |-> <<>>]

DictV(d) == [kind |-> "dict", val |-> d, exc |-> "", msg |-> <<>>, id |-> ""]

IsNumber(v) == v.kind \in {"float", "int"}

\* x - y on Python numbers: real when both are real, complex otherwise.
Sub(x, y) == IF IsNumber(x) /\ IsNumber(y) THEN Float(x.val - y.val) ELSE ComplexV

(***************************************************************************)
(* Fixed-point arithmetic.                                                 *)
(***************************************************************************)
RECURSIVE Pow10(_)
Pow10(n) == IF n = 0 THEN 1 ELSE 10 * Pow10(n - 1)

\* floor(x * 10^n / d), by long division so that no intermediate overflows.
RECURSIVE ScaleDiv(_, _, _)
ScaleDiv(x, n, d) ==
    IF n = 0 THEN x \div d
    ELSE (x \div d) * Pow10(n) + ScaleDiv((x % d) * 10, n - 1, d)

IPow(r, k) == IF k = 1 THEN r ELSE IF k = 2 THEN r * r ELSE r * r * r

RECURSIVE IntRoot(_, _, _)
IntRoot(k, x, r) == IF IPow(r + 1, k) > x THEN r ELSE IntRoot(k, x, r + 1)

\* r^k <= x * 10^(k*n), tested as r^(k-1) <= floor(x * 10^(k*n) / r).
RootFits(k, x, n, r) == r = 0 \/ IPow(r, k - 1) <= ScaleDiv(x, k * n, r)

\* floor(x^(1/k) * 10^n) for x >= 0, one decimal digit at a time.
RECURSIVE Root(_, _, _)
Root(k, x, n) ==
    IF n = 0 THEN IntRoot(k, x, 0)
    ELSE LET b == 10 * Root(k, x, n - 1)
         IN  CHOOSE r \in b..(b + 9) :
                 RootFits(k, x, n, r) /\ ~RootFits(k, x, n, r + 1)

\* math.sqrt(A), A**(1/3), A**(2/3) in thousandths, for A >= 1.
sqrt(A) == Root(2, A, 3)

pow_1_3(A) == Root(3, A, 3)

pow_2_3(A) == Root(3, A * A, 3)

(***************************************************************************)
(* Constants of the package's constants module, in the model's units.      *)
(***************************************************************************)
PROTON_MASS_MEV == 938272
NEUTRON_MASS_MEV == 939565
ELECTRON_MASS_MEV == 511
ATOMIC_MASS_UNIT_MEV == 931494

\* NUCLEAR_RADIUS_CONSTANT, in thousandths of a femtometre.
NUCLEAR_RADIUS_CONSTANT == 1200

\* COULOMB_CONSTANT * ELEMENTARY_CHARGE**2 / ELECTRON_VOLT / 1e6 over a
\* length of 1e-15 m: the Coulomb energy of two unit charges one femtometre
\* apart, in millionths of an MeV.
COULOMB_CONSTANT_E2 == 1439964

\* x * ATOMIC_MASS_UNIT_MEV for x in millionths of u, in thousandths of an
\* MeV; x is split into its whole part, thousandths and millionths.
TimesAmuMeV(x) ==
    (x \div 1000000) * ATOMIC_MASS_UNIT_MEV
    + (((x % 1000000) \div 1000) * ATOMIC_MASS_UNIT_MEV) \div 1000
    + ((x % 1000) * ATOMIC_MASS_UNIT_MEV) \div 1000000

(***************************************************************************)
(* The pairing branch; the source holds three copies of it.                *)
(***************************************************************************)
\* 11.18 / math.sqrt(A): math.sqrt raises on a negative A, and the division
\* raises on sqrt(0) = 0.0.
PairingQuotient(A) ==
    IF A < 0 THEN Raise("ValueError", <<"math domain error">>)
    ELSE IF A = 0 THEN Raise("ZeroDivisionError", <<"float division by zero">>)
    ELSE Float(ScaleDiv(11180, 3, sqrt(A)))

\* -x for the unary minus of -11.18 / math.sqrt(A); an exception passes.
Negated(x) == IF x.kind = "float" THEN Float(-x.val) ELSE x

\* Fault seeded for C24: the sign follows the parity of Z alone.
pairing_energy_Z_only_mutant(A, Z) ==
    IF Z % 2 = 0 THEN PairingQuotient(A)
    ELSE Negated(PairingQuotient(A))

\* Fault seeded for C1: the odd-odd test reads N's parity wrongly.
pairing_energy_parity_mutant(A, Z) ==
    LET N == A - Z
    IN  IF Z % 2 = 0 /\ N % 2 = 0 THEN PairingQuotient(A)
        ELSE IF Z % 2 = 1 /\ N % 2 = 0 THEN Negated(PairingQuotient(A))
        ELSE IntV(0)

pairing_energy(A, Z) ==
    LET N == A - Z
    IN  IF Z % 2 = 0 /\ N % 2 = 0 THEN PairingQuotient(A)
        ELSE IF Z % 2 = 1 /\ N % 2 = 1 THEN Negated(PairingQuotient(A))
        ELSE IntV(0)

\* The delta of binding_energy_semf, lines 102-107.
\* Fault seeded for C26: a remainder that keeps the sign of Z, so that an odd
\* Z < 0 is not seen as odd.
binding_energy_semf_delta_remainder_mutant(A, Z) ==
    IF Z % 2 = 0 /\ (A - Z) % 2 = 0 THEN PairingQuotient(A)
    ELSE IF Z > 0 /\ A - Z > 0 /\ Z % 2 = 1 /\ (A - Z) % 2 = 1
    THEN Negated(PairingQuotient(A))
    ELSE IntV(0)

\* Fault seeded for C13: this copy of the branch gives odd-odd the sign of
\* even-even.
binding_energy_semf_delta_sign_mutant(A, Z) ==
    IF Z % 2 = 0 /\ (A - Z) % 2 = 0 THEN PairingQuotient(A)
    ELSE IF Z % 2 = 1 /\ (A - Z) % 2 = 1 THEN PairingQuotient(A)
    ELSE IntV(0)

binding_energy_semf_delta(A, Z) ==
    IF Z % 2 = 0 /\ (A - Z) % 2 = 0 THEN PairingQuotient(A)
    ELSE IF Z % 2 = 1 /\ (A - Z) % 2 = 1 THEN Negated(PairingQuotient(A))
    ELSE IntV(0)

\* The delta of semi_empirical_mass_formula, lines 55-60.
semi_empirical_mass_formula_delta(A, Z) ==
    IF Z % 2 = 0 /\ (A - Z) % 2 = 0 THEN PairingQuotient(A)
    ELSE IF Z % 2 = 1 /\ (A - Z) % 2 = 1 THEN Negated(PairingQuotient(A))
    ELSE IntV(0)

(***************************************************************************)
(* The SEMF engine.  Each function carries its own coefficients and its    *)
(* own copy of the five-term sum.  With A = 0 the pairing branch has       *)
(* already raised (Z and -Z have one parity); a negative odd A skips the   *)
(* square root and makes A**(2/3) complex.                                 *)
(***************************************************************************)
\* The return statement of binding_energy_semf (lines 97-100, 109-113),
\* given the delta of lines 102-107.
binding_energy_semf_return(A, Z, delta) ==
    LET a_v == 15750
        a_s == 17800
        a_c == 711
        a_A == 23700
    IN  IF delta.kind = "raise" THEN delta
        ELSE IF A < 0 THEN ComplexV
        ELSE IF A = 0 THEN Raise("ZeroDivisionError", <<"float division by zero">>)
        ELSE Float(a_v * A
                   - (a_s * pow_2_3(A)) \div 1000
                   - ScaleDiv(a_c * Z * Z, 3, pow_1_3(A))
                   - (a_A * (A - 2 * Z) * (A - 2 * Z)) \div A
                   + delta.val)

binding_energy_semf(A, Z) ==
    binding_energy_semf_return(A, Z, binding_energy_semf_delta(A, Z))

\* mass_energy / ATOMIC_MASS_UNIT_MEV of lines 70-71, given BE in MeV.
MassFromBE(A, Z, BE) ==
    ScaleDiv(Z * PROTON_MASS_MEV + (A - Z) * NEUTRON_MASS_MEV - BE, 6,
             ATOMIC_MASS_UNIT_MEV)

\* Lines 49-52 and 62-71 of semi_empirical_mass_formula, given the delta of
\* lines 55-60.
\* Fault seeded for C16: the mass is built with a surface coefficient of
\* its own.
semi_empirical_mass_formula_return_coefficient_mutant(A, Z, delta) ==
    LET a_v == 15750
        a_s == 18300
        a_c == 711
        a_A == 23700
    IN  IF delta.kind = "raise" THEN delta
        ELSE IF A < 0 THEN ComplexV
        ELSE IF A = 0 THEN Raise("ZeroDivisionError", <<"float division by zero">>)
        ELSE Float(MassFromBE(A, Z, a_v * A
                                    - (a_s * pow_2_3(A)) \div 1000
                                    - ScaleDiv(a_c * Z * Z, 3, pow_1_3(A))
                                    - (a_A * (A - 2 * Z) * (A - 2 * Z)) \div A
                                    + delta.val))

semi_empirical_mass_formula_return(A, Z, delta) ==
    LET a_v == 15750
        a_s == 17800
        a_c == 711
        a_A == 23700
    IN  IF delta.kind = "raise" THEN delta
        ELSE IF A < 0 THEN ComplexV
        ELSE IF A = 0 THEN Raise("ZeroDivisionError", <<"float division by zero">>)
        ELSE Float(MassFromBE(A, Z, a_v * A
                                    - (a_s * pow_2_3(A)) \div 1000
                                    - ScaleDiv(a_c * Z * Z, 3, pow_1_3(A))
                                    - (a_A * (A - 2 * Z) * (A - 2 * Z)) \div A
                                    + delta.val))

semi_empirical_mass_formula(A, Z) ==
    semi_empirical_mass_formula_return(A, Z, semi_empirical_mass_formula_delta(A, Z))

(***************************************************************************)
(* Outcome of a call:                                                      *)
(*   ret    the value returned or the exception raised,                    *)
(*   evals  the binding-energy and mass evaluations entered, in order,     *)
(*   delta  the pairing term the call computed (NoneV when it has none).   *)
(***************************************************************************)
Outcome(r, e, d) == [ret |-> r, evals |-> e, delta |-> d]

\* initial - final - less where initial and final come from two successive
\* evaluations, first and second: an exception ends the call where it is
\* raised.
Difference(initial, final, less, first, second) ==
    IF initial.kind = "raise" THEN Outcome(initial, <<first>>, NoneV)
    ELSE IF final.kind = "raise" THEN Outcome(final, <<first, second>>, NoneV)
    ELSE Outcome(Sub(Sub(initial, final), less), <<first, second>>, NoneV)

\* BE(A, Z) - BE(A2, Z2) [- less] as separation_energy evaluates it: the
\* parent first, the daughter second.
BEDifference(A, Z, A2, Z2, less) ==
    Difference(binding_energy_semf(A, Z), binding_energy_semf(A2, Z2), less,
               <<"binding_energy_semf", A, Z>>, <<"binding_energy_semf", A2, Z2>>)

\* Fault seeded for C2: the alpha branch forgets the 28.3 MeV.
separation_energy_alpha_mutant(A, Z, particle) ==
    IF particle = "neutron" THEN BEDifference(A, Z, A - 1, Z, IntV(0))
    ELSE IF particle = "proton" THEN BEDifference(A, Z, A - 1, Z - 1, IntV(0))
    ELSE IF particle = "alpha" THEN BEDifference(A, Z, A - 4, Z - 2, IntV(0))
    ELSE Outcome(Raise("ValueError", <<"Unknown particle type: ", particle>>), <<>>, NoneV)

separation_energy(A, Z, particle) ==
    IF particle = "neutron" THEN BEDifference(A, Z, A - 1, Z, IntV(0))
    ELSE IF particle = "proton" THEN BEDifference(A, Z, A - 1, Z - 1, IntV(0))
    ELSE IF particle = "alpha" THEN BEDifference(A, Z, A - 4, Z - 2, Float(28300))
    ELSE Outcome(Raise("ValueError", <<"Unknown particle type: ", particle>>), <<>>, NoneV)

\* Fault seeded for C30: the final nucleus has lost one neutron only.
two_neutron_separation_energy_one_mutant(A, Z) ==
    BEDifference(A, Z, A - 1, Z, IntV(0))

two_neutron_separation_energy(A, Z) ==
    BEDifference(A, Z, A - 2, Z, IntV(0))

(***************************************************************************)
(* The approximate proton number of a stable nucleus.                      *)
(***************************************************************************)
\* The mass numbers whose float quotient by 2.2 falls just below the whole
\* number it would be exactly (55 / 2.2 is 24.999999999999996).
RoundsBelow(mass_number, tenths) == tenths = 22 /\ mass_number \in {55, 66, 99}

\* int(mass_number / d) for d = tenths / 10 and mass_number > 0.
IntQuotient(mass_number, tenths) ==
    IF RoundsBelow(mass_number, tenths) THEN (10 * mass_number) \div tenths - 1
    ELSE (10 * mass_number) \div tenths

\* Fault seeded for C27: the light branch is one too low.
atomic_number_from_mass_low_mutant(mass_number) ==
    IF mass_number <= 20 THEN IntV(mass_number \div 2 - 1)
    ELSE IF mass_number <= 40 THEN IntV(IntQuotient(mass_number, 21))
    ELSE IF mass_number <= 100 THEN IntV(IntQuotient(mass_number, 22))
    ELSE IntV(IntQuotient(mass_number, 24))

atomic_number_from_mass(mass_number) ==
    IF mass_number <= 20 THEN IntV(mass_number \div 2)
    ELSE IF mass_number <= 40 THEN IntV(IntQuotient(mass_number, 21))
    ELSE IF mass_number <= 100 THEN IntV(IntQuotient(mass_number, 22))
    ELSE IntV(IntQuotient(mass_number, 24))

(***************************************************************************)
(* Decay kinematics and mass excess.                                       *)
(***************************************************************************)
\* x * ATOMIC_MASS_UNIT_MEV for a difference x of masses in u.
InMeV(x) == IF x.kind = "float" THEN Float(TimesAmuMeV(x.val)) ELSE x

\* The outcome with its value multiplied by ATOMIC_MASS_UNIT_MEV.
OutcomeInMeV(o) == IF o.ret.kind = "raise" THEN o ELSE Outcome(InMeV(o.ret), o.evals, NoneV)

\* (M_parent - M_daughter - less) * ATOMIC_MASS_UNIT_MEV, the parent's mass
\* evaluated first.
MassDifference(A, Z, A2, Z2, less) ==
    OutcomeInMeV(Difference(semi_empirical_mass_formula(A, Z),
                            semi_empirical_mass_formula(A2, Z2), less,
                            <<"semi_empirical_mass_formula", A, Z>>,
                            <<"semi_empirical_mass_formula", A2, Z2>>))

q_value_alpha_decay(A_parent, Z_parent) ==
    LET M_alpha == 4002603
    IN  MassDifference(A_parent, Z_parent, A_parent - 4, Z_parent - 2, Float(M_alpha))

\* The exception raised in place of the outcome o of work done first.
RaisedAfter(o, e) == Outcome(e, o.evals, NoneV)

\* Fault seeded for C3: the masses are evaluated before the mode is looked at.
q_value_beta_decay_eager_mutant(A, Z, decay_type) ==
    IF decay_type = "beta+"
    THEN MassDifference(A, Z, A, Z - 1, Float(2 * ELECTRON_MASS_MEV * 1000))
    ELSE IF decay_type = "beta-" THEN MassDifference(A, Z, A, Z + 1, IntV(0))
    ELSE RaisedAfter(MassDifference(A, Z, A, Z + 1, IntV(0)),
                     Raise("ValueError", <<"Unknown decay type: ", decay_type>>))

\* In the beta+ branch 2 * ELECTRON_MASS_MEV (a number of MeV) is taken from
\* a difference of masses in u before the product with ATOMIC_MASS_UNIT_MEV.
q_value_beta_decay(A, Z, decay_type) ==
    IF decay_type = "beta-" THEN MassDifference(A, Z, A, Z + 1, IntV(0))
    ELSE IF decay_type = "beta+"
    THEN MassDifference(A, Z, A, Z - 1, Float(2 * ELECTRON_MASS_MEV * 1000))
    ELSE Outcome(Raise("ValueError", <<"Unknown decay type: ", decay_type>>), <<>>, NoneV)

\* (atomic_mass_u - A) * ATOMIC_MASS_UNIT_MEV of line 250.
ExcessOf(atomic_mass_u, A) ==
    IF atomic_mass_u.kind = "raise" THEN atomic_mass_u
    ELSE InMeV(Sub(atomic_mass_u, IntV(A * 1000000)))

\* Fault seeded for C22: the excess is added to a module-level total that
\* an earlier call of mass_excess left behind.
mass_excess_running_total_mutant(A, Z) ==
    LET excess == ExcessOf(semi_empirical_mass_formula(A, Z), A)
        total == IF /\ earlier.call.op = "mass_excess"
                    /\ earlier.result.ret.kind = "float"
                    /\ excess.kind = "float"
                 THEN Float(earlier.result.ret.val + excess.val)
                 ELSE excess
    IN  Outcome(total, <<<<"semi_empirical_mass_formula", A, Z>>>>, NoneV)

mass_excess(A, Z) ==
    Outcome(ExcessOf(semi_empirical_mass_formula(A, Z), A),
            <<<<"semi_empirical_mass_formula", A, Z>>>>, NoneV)

(***************************************************************************)
(* Magic numbers.                                                          *)
(***************************************************************************)
\* x in xs for a list xs.
In(x, xs) == \E i \in DOMAIN xs : xs[i] = x

\* Fault seeded for C20: two entries of the list change places.
magic_numbers_order_mutant == ListV(<<2, 8, 28, 20, 50, 82, 126>>)

\* A list built anew by every call.
magic_numbers == ListV(<<2, 8, 20, 28, 50, 82, 126>>)

\* Line 150 given the list of line 149.
\* Fault seeded for C19: both counts have to be magic.
MagicIn_and_mutant(magic, Z, N) == BoolV(In(Z, magic.val) /\ In(N, magic.val))

MagicIn(magic, Z, N) == BoolV(In(Z, magic.val) \/ In(N, magic.val))

is_magic_nucleus(A, Z) ==
    Outcome(MagicIn(magic_numbers, Z, A - Z), <<<<"magic_numbers">>>>, NoneV)

(***************************************************************************)
(* The table of common nuclei, masses in millionths of u.                  *)
(***************************************************************************)
\* One inner dict of the table.
Entry(A, Z, mass) == << <<"A", A>>, <<"Z", Z>>, <<"mass", mass>> >>

NUCLEAR_DATA_literal ==
    << <<"H-1", Entry(1, 1, 1007825)>>,
       <<"H-2", Entry(2, 1, 2014102)>>,
       <<"H-3", Entry(3, 1, 3016049)>>,
       <<"He-3", Entry(3, 2, 3016029)>>,
       <<"He-4", Entry(4, 2, 4002603)>>,
       <<"Li-6", Entry(6, 3, 6015122)>>,
       <<"Li-7", Entry(7, 3, 7016004)>>,
       <<"C-12", Entry(12, 6, 12000000)>>,
       <<"N-14", Entry(14, 7, 14003074)>>,
       <<"O-16", Entry(16, 8, 15994915)>>,
       <<"Fe-56", Entry(56, 26, 55934942)>>,
       <<"U-235", Entry(235, 92, 235043930)>>,
       <<"U-238", Entry(238, 92, 238050788)>> >>

\* d.keys(), in insertion order.
Keys(d) == [i \in DOMAIN d |-> d[i][1]]

\* d[k] for a key k of d.
Item(d, k) == [id |-> k, items |-> d[CHOOSE i \in DOMAIN d : d[i][1] = k][2]]

\* sep.join(xs), as the sequence of its pieces.
RECURSIVE Join(_, _)
Join(xs, sep) ==
    IF Len(xs) <= 1 THEN xs
    ELSE <<Head(xs), sep>> \o Join(Tail(xs), sep)

\* value.copy(): a new dict with the items of value.
\* Fault seeded for C29: the entry's own dict is handed out.
Copy_same_object_mutant(value) ==
    [kind |-> "dict", val |-> value.items, exc |-> "", msg |-> <<>>, id |-> value.id]

Copy(value) ==
    DictV([i \in DOMAIN value.items |-> <<value.items[i][1], value.items[i][2]>>])

\* The writes a caller may make into a container it was returned:
\* rec['A'] = 0, rec['mass'] = 0, lst[0] = 0, lst.append(0).
Writes(container) ==
    IF container.kind = "dict" THEN {"A", "mass"}
    ELSE IF container.val = <<>> THEN {"append"}
    ELSE {"first", "append"}

\* The contents of a container after the write w.
Written(val, w) ==
    IF w = "append" THEN Append(val, 0)
    ELSE IF w = "first" THEN [val EXCEPT ![1] = 0]
    ELSE [i \in DOMAIN val |-> IF val[i][1] = w THEN <<w, 0>> ELSE val[i]]

\* The table after the write w into the container: a write into an object
\* of the table is a write into the table, any other leaves it alone.
WrittenThrough(table, container, w) ==
    IF container.id = "" THEN table
    ELSE [i \in DOMAIN table |->
             IF table[i][1] = container.id
             THEN <<table[i][1], Written(table[i][2], w)>>
             ELSE table[i]]

\* Fault seeded for C18: the message of the error names no nucleus of the
\* table.
get_nuclear_data_message_mutant(nucleus) ==
    IF In(nucleus, Keys(NUCLEAR_DATA))
    THEN Outcome(Copy(Item(NUCLEAR_DATA, nucleus)), <<>>, NoneV)
    ELSE Outcome(Raise("ValueError", <<"Nucleus ", nucleus, " not found.">>),
                 <<>>, NoneV)

get_nuclear_data(nucleus) ==
    IF In(nucleus, Keys(NUCLEAR_DATA))
    THEN Outcome(Copy(Item(NUCLEAR_DATA, nucleus)), <<>>, NoneV)
    ELSE Outcome(Raise("ValueError",
                       <<"Nucleus ", nucleus, " not found. Available: ">>
                       \o Join(Keys(NUCLEAR_DATA), ", ")),
                 <<>>, NoneV)

(***************************************************************************)
(* Radius and the decomposition of the binding energy.                     *)
(***************************************************************************)
\* r0 * A**(1/3) in thousandths of a femtometre; complex for A < 0.
nuclear_radius(A) ==
    IF A < 0 THEN ComplexV
    ELSE Float((NUCLEAR_RADIUS_CONSTANT * pow_1_3(A)) \div 1000)

\* Line 174 given the radius of line 173: a complex R gives a complex
\* quotient, R = 0.0 a division by zero.
CoulombOver(R, Z) ==
    IF R.kind = "complex" THEN ComplexV
    ELSE IF R.val = 0 THEN Raise("ZeroDivisionError", <<"float division by zero">>)
    ELSE Float(((3 * COULOMB_CONSTANT_E2 * Z * Z) \div 5) \div R.val)

coulomb_energy(A, Z) == CoulombOver(nuclear_radius(A), Z)

surface_energy(A) ==
    LET a_s == 17800
    IN  IF A < 0 THEN ComplexV
        ELSE Float((a_s * pow_2_3(A)) \div 1000)

asymmetry_energy(A, Z) ==
    LET a_A == 23700
    IN  IF A = 0 THEN Raise("ZeroDivisionError", <<"float division by zero">>)
        ELSE IF A < 0 THEN Float(-((a_A * (A - 2 * Z) * (A - 2 * Z)) \div (-A)))
        ELSE Float((a_A * (A - 2 * Z) * (A - 2 * Z)) \div A)

(***************************************************************************)
(* Stability search.                                                       *)
(***************************************************************************)
\* min_mass starts at float('inf'): every mass is below it.
Infinity == [inf |-> TRUE, val |-> 0]

Finite(v) == [inf |-> FALSE, val |-> v]

Less(mass, min_mass) == min_mass.inf \/ mass.val < min_mass.val

Greater(mass, min_mass) == min_mass.inf \/ mass.val > min_mass.val

\* The body of the inner loop of valley_of_stability (lines 208-211) on the
\* loop's variables s, with mass the value of line 208.
\* Fault seeded for C4: the comparison is turned round.
ScanZBody_max_mutant(s, A, Z, mass) ==
    [min_mass |-> IF Greater(mass, s.min_mass) THEN Finite(mass.val) ELSE s.min_mass,
     best_Z |-> IF Greater(mass, s.min_mass) THEN Z ELSE s.best_Z,
     evals |-> Append(s.evals, <<"semi_empirical_mass_formula", A, Z>>)]

ScanZBody(s, A, Z, mass) ==
    [min_mass |-> IF Less(mass, s.min_mass) THEN Finite(mass.val) ELSE s.min_mass,
     best_Z |-> IF Less(mass, s.min_mass) THEN Z ELSE s.best_Z,
     evals |-> Append(s.evals, <<"semi_empirical_mass_formula", A, Z>>)]

\* The inner loop from Z to A - 1 (line 207).
\* Fault seeded for C28: the scan runs up to Z = A.
RECURSIVE ScanZ_inclusive_mutant(_, _, _)
ScanZ_inclusive_mutant(A, Z, s) ==
    IF Z > A THEN s
    ELSE ScanZ_inclusive_mutant(A, Z + 1,
                                ScanZBody(s, A, Z, semi_empirical_mass_formula(A, Z)))

RECURSIVE ScanZ(_, _, _)
ScanZ(A, Z, s) ==
    IF Z >= A THEN s
    ELSE ScanZ(A, Z + 1, ScanZBody(s, A, Z, semi_empirical_mass_formula(A, Z)))

\* The inner loop's variables as lines 204-205 set them for a new A, given
\* those left by the previous A.
\* Fault seeded for C5: min_mass and best_Z are not reset for a new A.
NewScan_carry_mutant(last) == last

NewScan(last) == [min_mass |-> Infinity, best_Z |-> 1, evals |-> last.evals]

\* The outer loop from A to A_max (lines 203-213); last holds the inner
\* loop's variables after the previous A.
RECURSIVE ScanA(_, _, _, _)
\* Line 213 and the next iteration: the entry for A is appended.
ScanAStep(A, A_max, stable_Z, inner) ==
    ScanA(A + 1, A_max, Append(stable_Z, inner.best_Z), inner)

ScanA(A, A_max, stable_Z, last) ==
    IF A > A_max THEN Outcome(ListV(stable_Z), last.evals, NoneV)
    ELSE ScanAStep(A, A_max, stable_Z, ScanZ(A, 1, NewScan(last)))

valley_of_stability(A_range) ==
    ScanA(A_range[1], A_range[2], <<>>,
          [min_mass |-> Infinity, best_Z |-> 1, evals |-> <<>>])

\* The ceiling of the drip-line searches, and the value they return when
\* the search is exhausted.
SearchCeiling == 300

\* Fault seeded for C25: the mass number of the crossing itself is returned.
ProbeStep_return_A_mutant(A, evals, S) ==
    IF S.ret.kind = "raise"
    THEN [done |-> TRUE, out |-> Outcome(S.ret, evals \o S.evals, NoneV)]
    ELSE IF S.ret.kind = "complex"
    THEN [done |-> TRUE,
          out |-> Outcome(Raise("TypeError", <<"'<=' not supported between instances of 'complex' and 'int'">>),
                          evals \o S.evals, NoneV)]
    ELSE IF S.ret.val <= 0
    THEN [done |-> TRUE, out |-> Outcome(IntV(A), evals \o S.evals, NoneV)]
    ELSE [done |-> FALSE, out |-> Outcome(NoneV, evals \o S.evals, NoneV)]

\* What one iteration of a drip-line loop does with the separation energy S
\* probed at A (lines 264-266): done says whether the loop ends here.
\* S <= 0 on a complex S is a TypeError.
ProbeStep(A, evals, S) ==
    IF S.ret.kind = "raise"
    THEN [done |-> TRUE, out |-> Outcome(S.ret, evals \o S.evals, NoneV)]
    ELSE IF S.ret.kind = "complex"
    THEN [done |-> TRUE,
          out |-> Outcome(Raise("TypeError", <<"'<=' not supported between instances of 'complex' and 'int'">>),
                          evals \o S.evals, NoneV)]
    ELSE IF S.ret.val <= 0
    THEN [done |-> TRUE, out |-> Outcome(IntV(A - 1), evals \o S.evals, NoneV)]
    ELSE [done |-> FALSE, out |-> Outcome(NoneV, evals \o S.evals, NoneV)]

\* The loop of neutron_drip_line from A on (lines 263-267).
RECURSIVE NeutronScan(_, _, _)
\* Return, or go on to A + 1.
\* Fault seeded for C21: the loop steps over every other mass number.
RECURSIVE NeutronScan_skip_mutant(_, _, _)
NeutronNext_skip_mutant(Z, A, step) ==
    IF step.done THEN step.out ELSE NeutronScan_skip_mutant(Z, A + 2, step.out.evals)

NeutronScan_skip_mutant(Z, A, evals) ==
    IF A >= SearchCeiling THEN Outcome(IntV(300), evals, NoneV)
    ELSE NeutronNext_skip_mutant(Z, A, ProbeStep(A, evals, separation_energy(A, Z, "neutron")))

NeutronNext(Z, A, step) ==
    IF step.done THEN step.out ELSE NeutronScan(Z, A + 1, step.out.evals)

NeutronScan(Z, A, evals) ==
    IF A >= SearchCeiling THEN Outcome(IntV(300), evals, NoneV)
    ELSE NeutronNext(Z, A, ProbeStep(A, evals, separation_energy(A, Z, "neutron")))

neutron_drip_line(Z) == NeutronScan(Z, Z, <<>>)

\* The loop of proton_drip_line from A on (lines 273-277).
RECURSIVE ProtonScan(_, _, _)
\* Return, or go on to A + 1.
ProtonNext(Z, A, step) ==
    IF step.done THEN step.out ELSE ProtonScan(Z, A + 1, step.out.evals)

ProtonScan(Z, A, evals) ==
    IF A >= SearchCeiling THEN Outcome(IntV(300), evals, NoneV)
    ELSE ProtonNext(Z, A, ProbeStep(A, evals, separation_energy(A, Z, "proton")))

proton_drip_line(Z) == ProtonScan(Z, Z, <<>>)

(***************************************************************************)
(* State machine: a caller invokes one function with arguments of its      *)
(* choice (pc "idle" to "returned") and then collects the outcome.  The    *)
(* functions keep nothing between calls.                                   *)
(***************************************************************************)
NoCall == [op |-> "none"]

NoResult == Outcome(NoneV, <<>>, NoneV)

NoEarlier == [call |-> NoCall, result |-> NoResult, held |-> NoneV]

\* The calls whose outcome a caller may keep.
ReferenceCalls ==
    {[op |-> "mass_excess", A |-> 4, Z |-> 2],
     [op |-> "mass_excess", A |-> 0, Z |-> 0],
     [op |-> "mass_excess", A |-> -1, Z |-> 0],
     [op |-> "binding_energy_semf", A |-> 4, Z |-> 2],
     [op |-> "separation_energy", A |-> 4, Z |-> 2, particle |-> "alpha"],
     [op |-> "q_value_beta_decay", A |-> 4, Z |-> 2, decay_type |-> "beta-"],
     [op |-> "neutron_drip_line", Z |-> 2],
     [op |-> "valley_of_stability", A_range |-> <<2, 4>>],
     [op |-> "is_magic_nucleus", A |-> 17, Z |-> 8],
     [op |-> "magic_numbers"],
     [op |-> "get_nuclear_data", nucleus |-> "He-4"],
     [op |-> "get_nuclear_data", nucleus |-> "He-5"]}

ARange == (-MaxNegA)..MaxA

ZRange == (-2)..(MaxA + 1)

Particles == {"neutron", "proton", "alpha", "deuteron", "Neutron", ""}

DecayTypes == {"beta-", "beta+", "alpha", "beta", ""}

ValleyRange == (-1)..MaxRange

DripZ == (1..MaxZ) \cup {HeavyZ, SearchCeiling - 1, SearchCeiling, SearchCeiling + 1}

\* Proton and neutron numbers around the magic numbers.
NucleonCounts == {-2, 0, 1, 2, 3, 8, 9, 20, 28, 50, 82, 83, 126, 127}

\* Names in and out of the table.
Nuclei == {"H-1", "H-2", "H-3", "He-3", "He-4", "Li-6", "Li-7", "C-12", "N-14",
           "O-16", "Fe-56", "U-235", "U-238",
           "He-5", "he-4", "He4", "U-236", "", "A", "Z", "mass"}

MassNumbers == (-MaxNegA)..MaxMassNumber

\* pairing_energy returns the pairing term it computed.
Returning(delta) == Outcome(delta, <<>>, delta)

\* The threads that call into the module, and the arguments they pass.
Threads == 1..NumThreads

ThreadNuclei == {"He-4", "He-5"}

ThreadRanges == {<<2, 3>>}

\* A thread outside the module: the line it is at, its call, the outcome
\* and the returned container as the thread has left it.
IdleThread == [at |-> "idle", call |-> NoCall, ret |-> NoResult, held |-> NoneV]

\* The local variables of a call before any is bound.
NoFrame ==
    [nucleus |-> "", available |-> <<>>, A_range |-> <<0, 0>>, stable_Z |-> <<>>,
     A |-> 0, Z |-> 0, mass |-> NoneV,
     scan |-> [min_mass |-> Infinity, best_Z |-> 1, evals |-> <<>>]]

\* Where the local variables of thread t's call live: each call has a frame
\* of its own.
\* Fault seeded for C23: the local variables are module-level names.
Frame_shared_mutant(t) == 1

Frame(t) == t

Locals(t) == frames[Frame(t)]

Init ==
    /\ pc = "idle"
    /\ call = NoCall
    /\ result = NoResult
    /\ NUCLEAR_DATA = NUCLEAR_DATA_literal
    /\ held = NoneV
    /\ earlier = NoEarlier
    /\ threads = [t \in Threads |-> IdleThread]
    /\ frames = [t \in Threads |-> NoFrame]

Call_pairing_energy ==
    /\ pc = "idle"
    /\ \E A \in ARange, Z \in ZRange :
          /\ call' = [op |-> "pairing_energy", A |-> A, Z |-> Z]
          /\ result' = Returning(pairing_energy(A, Z))
    /\ pc' = "returned"
    /\ UNCHANGED <<NUCLEAR_DATA, held, earlier, threads, frames>>

Call_binding_energy_semf ==
    /\ pc = "idle"
    /\ \E A \in ARange, Z \in ZRange :
          /\ call' = [op |-> "binding_energy_semf", A |-> A, Z |-> Z]
          /\ result' = Outcome(binding_energy_semf(A, Z),
                               <<<<"binding_energy_semf", A, Z>>>>,
                               binding_energy_semf_delta(A, Z))
    /\ pc' = "returned"
    /\ UNCHANGED <<NUCLEAR_DATA, held, earlier, threads, frames>>

Call_semi_empirical_mass_formula ==
    /\ pc = "idle"
    /\ \E A \in ARange, Z \in ZRange :
          /\ call' = [op |-> "semi_empirical_mass_formula", A |-> A, Z |-> Z]
          /\ result' = Outcome(semi_empirical_mass_formula(A, Z),
                               <<<<"semi_empirical_mass_formula", A, Z>>>>,
                               semi_empirical_mass_formula_delta(A, Z))
    /\ pc' = "returned"
    /\ UNCHANGED <<NUCLEAR_DATA, held, earlier, threads, frames>>

Call_separation_energy ==
    /\ pc = "idle"
    /\ \E A \in ARange, Z \in ZRange, particle \in Particles :
          /\ call' = [op |-> "separation_energy", A |-> A, Z |-> Z, particle |-> particle]
          /\ result' = separation_energy(A, Z, particle)
    /\ pc' = "returned"
    /\ UNCHANGED <<NUCLEAR_DATA, held, earlier, threads, frames>>

Call_q_value_alpha_decay ==
    /\ pc = "idle"
    /\ \E A \in ARange, Z \in ZRange :
          /\ call' = [op |-> "q_value_alpha_decay", A |-> A, Z |-> Z]
          /\ result' = q_value_alpha_decay(A, Z)
    /\ pc' = "returned"
    /\ UNCHANGED <<NUCLEAR_DATA, held, earlier, threads, frames>>

Call_q_value_beta_decay ==
    /\ pc = "idle"
    /\ \E A \in ARange, Z \in ZRange, decay_type \in DecayTypes :
          /\ call' = [op |-> "q_value_beta_decay", A |-> A, Z |-> Z,
                      decay_type |-> decay_type]
          /\ result' = q_value_beta_decay(A, Z, decay_type)
    /\ pc' = "returned"
    /\ UNCHANGED <<NUCLEAR_DATA, held, earlier, threads, frames>>

Call_mass_excess ==
    /\ pc = "idle"
    /\ \E A \in ARange, Z \in ZRange :
          /\ call' = [op |-> "mass_excess", A |-> A, Z |-> Z]
          /\ result' = mass_excess(A, Z)
    /\ pc' = "returned"
    /\ UNCHANGED <<NUCLEAR_DATA, held, earlier, threads, frames>>

Call_valley_of_stability ==
    /\ pc = "idle"
    /\ \E A_min \in ValleyRange, A_max \in ValleyRange :
          /\ call' = [op |-> "valley_of_stability", A_range |-> <<A_min, A_max>>]
          /\ result' = valley_of_stability(<<A_min, A_max>>)
    /\ pc' = "returned"
    /\ UNCHANGED <<NUCLEAR_DATA, held, earlier, threads, frames>>

Call_neutron_drip_line ==
    /\ pc = "idle"
    /\ \E Z \in DripZ :
          /\ call' = [op |-> "neutron_drip_line", Z |-> Z]
          /\ result' = neutron_drip_line(Z)
    /\ pc' = "returned"
    /\ UNCHANGED <<NUCLEAR_DATA, held, earlier, threads, frames>>

Call_proton_drip_line ==
    /\ pc = "idle"
    /\ \E Z \in DripZ :
          /\ call' = [op |-> "proton_drip_line", Z |-> Z]
          /\ result' = proton_drip_line(Z)
    /\ pc' = "returned"
    /\ UNCHANGED <<NUCLEAR_DATA, held, earlier, threads, frames>>

Call_surface_energy ==
    /\ pc = "idle"
    /\ \E A \in ARange :
          /\ call' = [op |-> "surface_energy", A |-> A]
          /\ result' = Outcome(surface_energy(A), <<>>, NoneV)
    /\ pc' = "returned"
    /\ UNCHANGED <<NUCLEAR_DATA, held, earlier, threads, frames>>

Call_coulomb_energy ==
    /\ pc = "idle"
    /\ \E A \in ARange, Z \in ZRange :
          /\ call' = [op |-> "coulomb_energy", A |-> A, Z |-> Z]
          /\ result' = Outcome(coulomb_energy(A, Z), <<>>, NoneV)
    /\ pc' = "returned"
    /\ UNCHANGED <<NUCLEAR_DATA, held, earlier, threads, frames>>

Call_asymmetry_energy ==
    /\ pc = "idle"
    /\ \E A \in ARange, Z \in ZRange :
          /\ call' = [op |-> "asymmetry_energy", A |-> A, Z |-> Z]
          /\ result' = Outcome(asymmetry_energy(A, Z), <<>>, NoneV)
    /\ pc' = "returned"
    /\ UNCHANGED <<NUCLEAR_DATA, held, earlier, threads, frames>>

Call_magic_numbers ==
    /\ pc = "idle"
    /\ call' = [op |-> "magic_numbers"]
    /\ result' = Outcome(magic_numbers, <<>>, NoneV)
    /\ pc' = "returned"
    /\ UNCHANGED <<NUCLEAR_DATA, held, earlier, threads, frames>>

Call_is_magic_nucleus ==
    /\ pc = "idle"
    /\ \E Z \in NucleonCounts, N \in NucleonCounts :
          /\ call' = [op |-> "is_magic_nucleus", A |-> Z + N, Z |-> Z]
          /\ result' = is_magic_nucleus(Z + N, Z)
    /\ pc' = "returned"
    /\ UNCHANGED <<NUCLEAR_DATA, held, earlier, threads, frames>>

Call_get_nuclear_data ==
    /\ pc = "idle"
    /\ \E nucleus \in Nuclei :
          /\ call' = [op |-> "get_nuclear_data", nucleus |-> nucleus]
          /\ result' = get_nuclear_data(nucleus)
    /\ pc' = "returned"
    /\ UNCHANGED <<NUCLEAR_DATA, held, earlier, threads, frames>>

Call_two_neutron_separation_energy ==
    /\ pc = "idle"
    /\ \E A \in ARange, Z \in ZRange :
          /\ call' = [op |-> "two_neutron_separation_energy", A |-> A, Z |-> Z]
          /\ result' = two_neutron_separation_energy(A, Z)
    /\ pc' = "returned"
    /\ UNCHANGED <<NUCLEAR_DATA, held, earlier, threads, frames>>

Call_atomic_number_from_mass ==
    /\ pc = "idle"
    /\ \E mass_number \in MassNumbers :
          /\ call' = [op |-> "atomic_number_from_mass", mass_number |-> mass_number]
          /\ result' = Outcome(atomic_number_from_mass(mass_number), <<>>, NoneV)
    /\ pc' = "returned"
    /\ UNCHANGED <<NUCLEAR_DATA, held, earlier, threads, frames>>

\* The caller writes into the list or dict the call returned.
Mutate ==
    /\ pc = "returned"
    /\ result.ret.kind \in {"list", "dict"}
    /\ \E w \in Writes(result.ret) :
          /\ held' = [result.ret EXCEPT !.val = Written(result.ret.val, w)]
          /\ NUCLEAR_DATA' = WrittenThrough(NUCLEAR_DATA, result.ret, w)
    /\ pc' = "mutated"
    /\ UNCHANGED <<call, result, earlier, threads, frames>>

\* The caller takes the outcome.
Collect ==
    /\ pc \in {"returned", "mutated"}
    /\ pc' = "idle"
    /\ call' = NoCall
    /\ result' = NoResult
    /\ held' = NoneV
    /\ UNCHANGED <<NUCLEAR_DATA, earlier, threads, frames>>

\* The caller takes the outcome and keeps it, with the container as it has
\* left it, to compare it with the outcome of a later call.
Remember ==
    /\ pc \in {"returned", "mutated"}
    /\ earlier = NoEarlier
    /\ call \in ReferenceCalls
    /\ earlier' = [call |-> call, result |-> result, held |-> held]
    /\ pc' = "idle"
    /\ call' = NoCall
    /\ result' = NoResult
    /\ held' = NoneV
    /\ UNCHANGED <<NUCLEAR_DATA, threads, frames>>

Next ==
    \/ Call_pairing_energy
    \/ Call_binding_energy_semf
    \/ Call_semi_empirical_mass_formula
    \/ Call_separation_energy
    \/ Call_q_value_alpha_decay
    \/ Call_q_value_beta_decay
    \/ Call_mass_excess
    \/ Call_valley_of_stability
    \/ Call_neutron_drip_line
    \/ Call_proton_drip_line
    \/ Call_surface_energy
    \/ Call_coulomb_energy
    \/ Call_asymmetry_energy
    \/ Call_magic_numbers
    \/ Call_is_magic_nucleus
    \/ Call_get_nuclear_data
    \/ Call_two_neutron_separation_energy
    \/ Call_atomic_number_from_mass
    \/ Mutate
    \/ Collect

Spec == Init /\ [][Next]_vars

\* The same callers, one of which keeps an outcome for later.
NextRepeat ==
    \/ Next
    \/ Remember

SpecRepeat == Init /\ [][NextRepeat]_vars

(***************************************************************************)
(* Concurrent calls: each thread runs get_nuclear_data or                  *)
(* valley_of_stability a line at a time, interleaved with the others.      *)
(***************************************************************************)
Goto(t, line) == threads' = [threads EXCEPT ![t].at = line]

Bind(t, locals) == frames' = [frames EXCEPT ![Frame(t)] = locals]

\* A return or a raise: the outcome goes to the thread, the frame is gone.
Leave(t, outcome) ==
    /\ threads' = [threads EXCEPT ![t].at = "done", ![t].ret = outcome]
    /\ Bind(t, NoFrame)

Main == <<pc, call, result, held, earlier>>

Enter_get_nuclear_data(t) ==
    /\ threads[t].at = "idle"
    /\ \E nucleus \in ThreadNuclei :
          /\ threads' = [threads EXCEPT ![t].at = "299",
                             ![t].call = [op |-> "get_nuclear_data", nucleus |-> nucleus]]
          /\ Bind(t, [NoFrame EXCEPT !.nucleus = nucleus])
    /\ UNCHANGED <<Main, NUCLEAR_DATA>>

\* if nucleus in NUCLEAR_DATA
Step_get_nuclear_data_299(t) ==
    /\ threads[t].at = "299"
    /\ Goto(t, IF In(Locals(t).nucleus, Keys(NUCLEAR_DATA)) THEN "300" ELSE "302")
    /\ UNCHANGED <<Main, NUCLEAR_DATA, frames>>

\* return NUCLEAR_DATA[nucleus].copy(); the subscript raises KeyError for a
\* name that is no key.
Step_get_nuclear_data_300(t) ==
    /\ threads[t].at = "300"
    /\ Leave(t, IF In(Locals(t).nucleus, Keys(NUCLEAR_DATA))
                THEN Outcome(Copy(Item(NUCLEAR_DATA, Locals(t).nucleus)), <<>>, NoneV)
                ELSE Outcome(Raise("KeyError", <<Locals(t).nucleus>>), <<>>, NoneV))
    /\ UNCHANGED <<Main, NUCLEAR_DATA>>

\* available = ', '.join(NUCLEAR_DATA.keys())
Step_get_nuclear_data_302(t) ==
    /\ threads[t].at = "302"
    /\ Bind(t, [Locals(t) EXCEPT !.available = Join(Keys(NUCLEAR_DATA), ", ")])
    /\ Goto(t, "303")
    /\ UNCHANGED <<Main, NUCLEAR_DATA>>

\* raise ValueError(f"Nucleus {nucleus} not found. Available: {available}")
Step_get_nuclear_data_303(t) ==
    /\ threads[t].at = "303"
    /\ Leave(t, Outcome(Raise("ValueError",
                              <<"Nucleus ", Locals(t).nucleus, " not found. Available: ">>
                              \o Locals(t).available),
                        <<>>, NoneV))
    /\ UNCHANGED <<Main, NUCLEAR_DATA>>

\* stable_Z = [] and the range of the outer loop is built.
Enter_valley_of_stability(t) ==
    /\ threads[t].at = "idle"
    /\ \E A_range \in ThreadRanges :
          /\ threads' = [threads EXCEPT ![t].at = "203",
                             ![t].call = [op |-> "valley_of_stability",
                                          A_range |-> A_range]]
          /\ Bind(t, [NoFrame EXCEPT !.A_range = A_range, !.A = A_range[1]])
    /\ UNCHANGED <<Main, NUCLEAR_DATA>>

\* for A in range(A_range[0], A_range[1] + 1): min_mass, best_Z are set anew.
Step_valley_of_stability_203(t) ==
    /\ threads[t].at = "203"
    /\ IF Locals(t).A > Locals(t).A_range[2]
       THEN Goto(t, "215") /\ UNCHANGED frames
       ELSE /\ Bind(t, [Locals(t) EXCEPT !.scan = NewScan(@), !.Z = 1])
            /\ Goto(t, "207")
    /\ UNCHANGED <<Main, NUCLEAR_DATA>>

\* for Z in range(1, A)
Step_valley_of_stability_207(t) ==
    /\ threads[t].at = "207"
    /\ Goto(t, IF Locals(t).Z >= Locals(t).A THEN "213" ELSE "208")
    /\ UNCHANGED <<Main, NUCLEAR_DATA, frames>>

\* mass = semi_empirical_mass_formula(A, Z)
Step_valley_of_stability_208(t) ==
    /\ threads[t].at = "208"
    /\ Bind(t, [Locals(t) EXCEPT
                    !.mass = semi_empirical_mass_formula(Locals(t).A, Locals(t).Z)])
    /\ Goto(t, "209")
    /\ UNCHANGED <<Main, NUCLEAR_DATA>>

\* if mass < min_mass: min_mass = mass; best_Z = Z
Step_valley_of_stability_209(t) ==
    /\ threads[t].at = "209"
    /\ Bind(t, [Locals(t) EXCEPT
                    !.scan = ScanZBody(@, Locals(t).A, Locals(t).Z, Locals(t).mass),
                    !.Z = @ + 1])
    /\ Goto(t, "207")
    /\ UNCHANGED <<Main, NUCLEAR_DATA>>

\* stable_Z.append(best_Z)
Step_valley_of_stability_213(t) ==
    /\ threads[t].at = "213"
    /\ Bind(t, [Locals(t) EXCEPT !.stable_Z = Append(@, Locals(t).scan.best_Z),
                                 !.A = @ + 1])
    /\ Goto(t, "203")
    /\ UNCHANGED <<Main, NUCLEAR_DATA>>

\* return stable_Z
Step_valley_of_stability_215(t) ==
    /\ threads[t].at = "215"
    /\ Leave(t, Outcome(ListV(Locals(t).stable_Z), Locals(t).scan.evals, NoneV))
    /\ UNCHANGED <<Main, NUCLEAR_DATA>>

\* The thread writes into the list or dict it was returned.
ThreadMutate(t) ==
    /\ threads[t].at = "done"
    /\ threads[t].ret.ret.kind \in {"list", "dict"}
    /\ \E w \in Writes(threads[t].ret.ret) :
          /\ threads' = [threads EXCEPT ![t].at = "mutated",
                             ![t].held = [threads[t].ret.ret EXCEPT
                                             !.val = Written(@, w)]]
          /\ NUCLEAR_DATA' = WrittenThrough(NUCLEAR_DATA, threads[t].ret.ret, w)
    /\ UNCHANGED <<Main, frames>>

\* The thread takes the outcome.
ThreadCollect(t) ==
    /\ threads[t].at \in {"done", "mutated"}
    /\ threads' = [threads EXCEPT ![t] = IdleThread]
    /\ UNCHANGED <<Main, NUCLEAR_DATA, frames>>

NextThreads ==
    \E t \in Threads :
        \/ Enter_get_nuclear_data(t)
        \/ Step_get_nuclear_data_299(t)
        \/ Step_get_nuclear_data_300(t)
        \/ Step_get_nuclear_data_302(t)
        \/ Step_get_nuclear_data_303(t)
        \/ Enter_valley_of_stability(t)
        \/ Step_valley_of_stability_203(t)
        \/ Step_valley_of_stability_207(t)
        \/ Step_valley_of_stability_208(t)
        \/ Step_valley_of_stability_209(t)
        \/ Step_valley_of_stability_213(t)
        \/ Step_valley_of_stability_215(t)
        \/ ThreadMutate(t)
        \/ ThreadCollect(t)

SpecThreads == Init /\ [][NextThreads]_vars

(***************************************************************************)
(* Properties.                                                             *)
(***************************************************************************)
Returned(ops) == pc = "returned" /\ call.op \in ops

Even(n) == \E k \in 0..n : n = 2 * k

Odd(n) == \E k \in 0..n : n = 2 * k + 1

\* C1: for A >= 1 and 0 <= Z <= A the pairing term of binding_energy_semf,
\* of semi_empirical_mass_formula and of pairing_energy is +11.18/sqrt(A)
\* exactly when Z and N = A - Z are both even, -11.18/sqrt(A) exactly when
\* both are odd, and 0 otherwise.
C1_PairingTermByParity ==
    (/\ Returned({"pairing_energy", "binding_energy_semf", "semi_empirical_mass_formula"})
     /\ call.A >= 1
     /\ call.Z \in 0..call.A)
    => LET N == call.A - call.Z
           magnitude == ScaleDiv(11180, 3, sqrt(call.A))
       IN  /\ magnitude > 0
           /\ IsNumber(result.delta)
           /\ result.delta.val = magnitude <=> (Even(call.Z) /\ Even(N))
           /\ result.delta.val = -magnitude <=> (Odd(call.Z) /\ Odd(N))
           /\ result.delta.val = 0 <=> ~(Even(call.Z) <=> Even(N))

C1_Witness ==
    /\ Returned({"semi_empirical_mass_formula"})
    /\ call.A = 6
    /\ call.Z = 3
    /\ result.delta.val < 0

\* The daughter nuclide and the constant separation_energy is said to use.
Daughter(A, Z, particle) ==
    IF particle = "neutron" THEN <<A - 1, Z, 0>>
    ELSE IF particle = "proton" THEN <<A - 1, Z - 1, 0>>
    ELSE <<A - 4, Z - 2, 28300>>

\* C2: separation_energy returns BE(A,Z) - BE(A-1,Z) for 'neutron',
\* BE(A,Z) - BE(A-1,Z-1) for 'proton' and BE(A,Z) - BE(A-4,Z-2) - 28.3 for
\* 'alpha', BE being binding_energy_semf.
C2_SeparationEnergyIsBEDifference ==
    (/\ Returned({"separation_energy"})
     /\ call.particle \in {"neutron", "proton", "alpha"})
    => LET d == Daughter(call.A, call.Z, call.particle)
           BE_parent == binding_energy_semf(call.A, call.Z)
           BE_daughter == binding_energy_semf(d[1], d[2])
       IN  (BE_parent.kind = "float" /\ BE_daughter.kind = "float")
           => result.ret = Float(BE_parent.val - BE_daughter.val - d[3])

C2_Witness ==
    /\ Returned({"separation_energy"})
    /\ call.particle = "alpha"
    /\ call.A = 6
    /\ call.Z = 3
    /\ result.ret.kind = "float"

\* C3: separation_energy with a particle other than 'neutron', 'proton',
\* 'alpha' and q_value_beta_decay with a mode other than 'beta-', 'beta+'
\* raise an error whose message names the invalid value, for every (A, Z),
\* before any binding energy or mass is evaluated.
C3_UnknownOptionRaisesFirst ==
    /\ (Returned({"separation_energy"})
        /\ call.particle \notin {"neutron", "proton", "alpha"})
       => /\ result.ret.kind = "raise"
          /\ result.ret.exc = "ValueError"
          /\ \E i \in DOMAIN result.ret.msg : result.ret.msg[i] = call.particle
          /\ result.evals = <<>>
    /\ (Returned({"q_value_beta_decay"})
        /\ call.decay_type \notin {"beta-", "beta+"})
       => /\ result.ret.kind = "raise"
          /\ result.ret.exc = "ValueError"
          /\ \E i \in DOMAIN result.ret.msg : result.ret.msg[i] = call.decay_type
          /\ result.evals = <<>>

C3_Witness ==
    /\ Returned({"q_value_beta_decay"})
    /\ call.decay_type = "alpha"
    /\ call.A = 0
    /\ result.ret.kind = "raise"

\* predict_mass(A, Z) for 1 <= Z < A.
PredictedMass(A, Z) == semi_empirical_mass_formula(A, Z).val

\* C4: for every A >= 2 of the range the entry valley_of_stability returns
\* is a Z in 1..A-1 whose predicted mass is least over 1..A-1, and the
\* lowest such Z.
C4_ValleyEntryMinimisesMass ==
    Returned({"valley_of_stability"})
    => \A A \in call.A_range[1]..call.A_range[2] :
          A >= 2
          => LET best == result.ret.val[A - call.A_range[1] + 1]
             IN  /\ best \in 1..(A - 1)
                 /\ \A Z \in 1..(A - 1) :
                       /\ PredictedMass(A, best) <= PredictedMass(A, Z)
                       /\ PredictedMass(A, Z) = PredictedMass(A, best) => best <= Z

C4_Witness ==
    /\ Returned({"valley_of_stability"})
    /\ call.A_range = <<2, 6>>
    /\ result.ret.val = <<1, 1, 2, 2, 3>>

\* C5: for A_min <= A_max valley_of_stability returns A_max - A_min + 1
\* entries, the one at index A - A_min being the result for A alone, so that
\* the result for (a, c) is the result for (a, b) followed by that for
\* (b + 1, c).
C5_ValleyIsPerMassNumber ==
    (/\ Returned({"valley_of_stability"})
     /\ call.A_range[1] <= call.A_range[2])
    => LET a == call.A_range[1]
           c == call.A_range[2]
       IN  /\ result.ret.kind = "list"
           /\ Len(result.ret.val) = c - a + 1
           /\ \A A \in a..c :
                 <<result.ret.val[A - a + 1]>> = valley_of_stability(<<A, A>>).ret.val
           /\ \A b \in a..(c - 1) :
                 result.ret.val = valley_of_stability(<<a, b>>).ret.val
                                  \o valley_of_stability(<<b + 1, c>>).ret.val

C5_Witness ==
    /\ Returned({"valley_of_stability"})
    /\ call.A_range = <<3, 6>>
    /\ Len(result.ret.val) = 4

\* The separation energy a drip-line search probes at mass number A.
Probe(A) ==
    separation_energy(A, call.Z,
                      IF call.op = "neutron_drip_line" THEN "neutron" ELSE "proton").ret

\* C6: a result r of neutron_drip_line(Z) or proton_drip_line(Z) other than
\* 300 satisfies r >= Z, with a separation energy >= 0 at (r, Z) and <= 0 at
\* (r + 1, Z).
C6_DripLineIsLastBoundMassNumber ==
    (/\ Returned({"neutron_drip_line", "proton_drip_line"})
     /\ result.ret.kind = "int"
     /\ result.ret.val # 300)
    => /\ result.ret.val >= call.Z
       /\ Probe(result.ret.val).kind = "float"
       /\ Probe(result.ret.val).val >= 0
       /\ Probe(result.ret.val + 1).kind = "float"
       /\ Probe(result.ret.val + 1).val <= 0

\* C7: the drip-line searches return 300, without raising, exactly when no
\* A in Z..299 has a separation energy <= 0, and every other result is at
\* most 298.
C7_SentinelIffSearchExhausted ==
    Returned({"neutron_drip_line", "proton_drip_line"})
    => /\ result.ret = IntV(300)
          <=> \A A \in call.Z..299 : ~(Probe(A).kind = "float" /\ Probe(A).val <= 0)
       /\ (result.ret.kind = "int" /\ result.ret.val # 300) => result.ret.val <= 298

\* C8: for every Z >= 1 the drip-line searches return an integer; the first
\* probe, at A = Z, does not raise.
C8_DripLineReturnsForEveryZ ==
    (/\ Returned({"neutron_drip_line", "proton_drip_line"})
     /\ call.Z >= 1)
    => result.ret.kind = "int"

\* C9: binding_energy_semf and semi_empirical_mass_formula called with
\* A <= 0 raise for every Z and never return a value.
C9_NonPositiveMassNumberRaises ==
    (/\ Returned({"binding_energy_semf", "semi_empirical_mass_formula"})
     /\ call.A <= 0)
    => result.ret.kind = "raise"

\* C10: for A >= 1 a structure or decay function called with Z < 0 or
\* Z > A raises instead of returning a number.
C10_ProtonNumberOutsideRangeRaises ==
    (/\ Returned({"binding_energy_semf", "semi_empirical_mass_formula",
                  "separation_energy", "q_value_alpha_decay",
                  "q_value_beta_decay", "mass_excess"})
     /\ call.A >= 1
     /\ (call.Z < 0 \/ call.Z > call.A))
    => result.ret.kind = "raise"

\* C11: for a parent with 1 <= A <= 4, q_value_alpha_decay(A, Z) and
\* separation_energy(A, Z, 'alpha') raise; none returns a value.
C11_AlphaOnLightParentFails ==
    (/\ \/ Returned({"q_value_alpha_decay"})
        \/ Returned({"separation_energy"}) /\ call.particle = "alpha"
     /\ call.A \in 1..4
     /\ call.Z \in 0..call.A)
    => result.ret.kind = "raise"

\* C12: separation_energy(4, 2, 'alpha') evaluates BE(4,2) and BE(0,0), and
\* the evaluation of BE(0,0) does not raise a division by zero: the call
\* returns BE(4,2) - BE(0,0) - 28.3.
C12_AlphaOfHelium4HasNoDivisionByZero ==
    (/\ Returned({"separation_energy"})
     /\ call.particle = "alpha"
     /\ call.A = 4
     /\ call.Z = 2)
    => /\ result.evals = <<<<"binding_energy_semf", 4, 2>>, <<"binding_energy_semf", 0, 0>>>>
       /\ ~(result.ret.kind = "raise" /\ result.ret.exc = "ZeroDivisionError")
       /\ binding_energy_semf(0, 0).kind # "raise"

\* C13: for A >= 1 and 0 <= Z <= A the three copies of the parity branch
\* agree: the pairing term a call computed is the value of pairing_energy,
\* of the delta of binding_energy_semf and of the delta of
\* semi_empirical_mass_formula, and it is what the two engines add to the
\* other four terms.
C13_PairingCopiesAgree ==
    (/\ Returned({"pairing_energy", "binding_energy_semf", "semi_empirical_mass_formula"})
     /\ call.A >= 1
     /\ call.Z \in 0..call.A)
    => /\ result.delta = pairing_energy(call.A, call.Z)
       /\ result.delta = binding_energy_semf_delta(call.A, call.Z)
       /\ result.delta = semi_empirical_mass_formula_delta(call.A, call.Z)
       /\ call.op = "binding_energy_semf"
          => result.ret.val - binding_energy_semf_return(call.A, call.Z, IntV(0)).val
             = pairing_energy(call.A, call.Z).val
       /\ call.op = "semi_empirical_mass_formula"
          => result.ret = semi_empirical_mass_formula_return(call.A, call.Z,
                                                            pairing_energy(call.A, call.Z))

C13_Witness ==
    /\ Returned({"binding_energy_semf"})
    /\ call.A = 5
    /\ call.Z = 1
    /\ call.Z % 2 = 1 /\ (call.A - call.Z) % 2 = 0
    /\ result.delta = IntV(0)
    /\ pairing_energy(5, 1) = IntV(0)

\* C14: for A >= 1 and 0 <= Z <= A, surface_energy, coulomb_energy and
\* asymmetry_energy return the terms of binding_energy_semf with their
\* signs: -a_s*A^(2/3), -a_c*Z^2/A^(1/3) with a_c = 0.711, and
\* -a_A*(A-2Z)^2/A.
C14_DecompositionEqualsSignedTerms ==
    /\ (Returned({"surface_energy"}) /\ call.A >= 1)
       => result.ret = Float(-((17800 * pow_2_3(call.A)) \div 1000))
    /\ (Returned({"coulomb_energy"}) /\ call.A >= 1 /\ call.Z \in 0..call.A)
       => result.ret = Float(-ScaleDiv(711 * call.Z * call.Z, 3, pow_1_3(call.A)))
    /\ (Returned({"asymmetry_energy"}) /\ call.A >= 1 /\ call.Z \in 0..call.A)
       => result.ret = Float(-((23700 * (call.A - 2 * call.Z) * (call.A - 2 * call.Z))
                               \div call.A))

\* C15: for A >= 1 and 0 <= Z <= A, binding_energy_semf(A, Z) is a_v*A plus
\* the values surface_energy, coulomb_energy, asymmetry_energy and
\* pairing_energy return for the same nuclide.
C15_BindingEnergyIsSumOfDecomposition ==
    (/\ Returned({"binding_energy_semf"})
     /\ call.A >= 1
     /\ call.Z \in 0..call.A)
    => result.ret = Float(15750 * call.A
                          + surface_energy(call.A).val
                          + coulomb_energy(call.A, call.Z).val
                          + asymmetry_energy(call.A, call.Z).val
                          + pairing_energy(call.A, call.Z).val)

\* The distance between two numbers.
Distance(x, y) == IF x >= y THEN x - y ELSE y - x

\* C16: for A >= 1 and 0 <= Z <= A the mass semi_empirical_mass_formula
\* predicts, times the atomic mass unit in MeV, is Z*m_p + (A-Z)*m_n less
\* the value binding_energy_semf returns for the same nuclide (to the last
\* digits carried): the mass embeds that binding energy and no other.
C16_MassEmbedsBindingEnergy ==
    (/\ Returned({"semi_empirical_mass_formula"})
     /\ call.A >= 1
     /\ call.Z \in 0..call.A)
    => LET BE == binding_energy_semf(call.A, call.Z)
           mass_energy == call.Z * PROTON_MASS_MEV
                          + (call.A - call.Z) * NEUTRON_MASS_MEV - BE.val
       IN  /\ BE.kind = "float"
           /\ result.ret.kind = "float"
           /\ result.ret.val = ScaleDiv(mass_energy, 6, ATOMIC_MASS_UNIT_MEV)
           /\ Distance(TimesAmuMeV(result.ret.val), mass_energy) <= 3

C16_Witness ==
    /\ Returned({"semi_empirical_mass_formula"})
    /\ call.A = 4
    /\ call.Z = 2
    /\ result.ret.kind = "float"
    /\ Distance(result.ret.val, 4008323) <= 20

\* C17: q_value_beta_decay returns an energy in MeV: for 'beta-' the
\* difference M(A,Z) - M(A,Z+1) converted from u to MeV, for 'beta+' the
\* difference M(A,Z) - M(A,Z-1) converted from u to MeV and then reduced
\* by 2*m_e, m_e the electron rest mass in MeV.
C17_BetaQValueInMeV ==
    (/\ Returned({"q_value_beta_decay"})
     /\ call.decay_type \in {"beta-", "beta+"}
     /\ call.A >= 1
     /\ call.Z \in 0..call.A
     /\ call.decay_type = "beta-" => call.Z + 1 <= call.A
     /\ call.decay_type = "beta+" => call.Z - 1 >= 0)
    => LET M_parent == semi_empirical_mass_formula(call.A, call.Z)
           M_daughter == semi_empirical_mass_formula(
                             call.A, IF call.decay_type = "beta-" THEN call.Z + 1
                                     ELSE call.Z - 1)
           electrons == IF call.decay_type = "beta-" THEN 0 ELSE 2 * ELECTRON_MASS_MEV
       IN  (M_parent.kind = "float" /\ M_daughter.kind = "float")
           => /\ result.ret.kind = "float"
              /\ Distance(result.ret.val,
                          TimesAmuMeV(M_parent.val - M_daughter.val) - electrons) <= 3

\* C18: get_nuclear_data(name) returns a record with exactly the A, Z and
\* mass the table holds for name when name is a key of the table; for any
\* other name it raises a not-found error whose message lists every key
\* of the table and returns no record; the table is left as it was.
C18_LookupReturnsEntryOrListsNames ==
    Returned({"get_nuclear_data"})
    => /\ NUCLEAR_DATA = NUCLEAR_DATA_literal
       /\ In(call.nucleus, Keys(NUCLEAR_DATA_literal))
          => /\ result.ret.kind = "dict"
             /\ Keys(result.ret.val) = <<"A", "Z", "mass">>
             /\ \E i \in DOMAIN NUCLEAR_DATA_literal :
                   /\ NUCLEAR_DATA_literal[i][1] = call.nucleus
                   /\ result.ret.val = NUCLEAR_DATA_literal[i][2]
       /\ ~In(call.nucleus, Keys(NUCLEAR_DATA_literal))
          => /\ result.ret.kind = "raise"
             /\ result.ret.exc = "ValueError"
             /\ In(" not found. Available: ", result.ret.msg)
             /\ In(call.nucleus, result.ret.msg)
             /\ \A i \in DOMAIN NUCLEAR_DATA_literal :
                   In(NUCLEAR_DATA_literal[i][1], result.ret.msg)

C18_Witness ==
    /\ Returned({"get_nuclear_data"})
    /\ call.nucleus = "He-5"
    /\ result.ret.kind = "raise"
    /\ In("U-238", result.ret.msg)
    /\ NUCLEAR_DATA = NUCLEAR_DATA_literal

\* The magic numbers of the specification.
IsMagic(n) == n \in {2, 8, 20, 28, 50, 82, 126}

\* C19: is_magic_nucleus(A, Z) is True exactly when Z is one of 2, 8, 20,
\* 28, 50, 82, 126 or N = A - Z is; one magic count suffices.
C19_MagicIffZOrNMagic ==
    Returned({"is_magic_nucleus"})
    => /\ result.ret.kind = "bool"
       /\ result.ret.val <=> (IsMagic(call.Z) \/ IsMagic(call.A - call.Z))

C19_Witness ==
    /\ Returned({"is_magic_nucleus"})
    /\ call.A = 17
    /\ call.Z = 8
    /\ result.ret = BoolV(TRUE)

\* C20: every call of magic_numbers(), wherever it stands in a sequence of
\* calls, returns the list [2, 8, 20, 28, 50, 82, 126], in that order.
C20_MagicNumbersIsTheFixedList ==
    Returned({"magic_numbers"})
    => /\ result.ret.kind = "list"
       /\ Len(result.ret.val) = 7
       /\ result.ret.val[1] = 2
       /\ result.ret.val[2] = 8
       /\ result.ret.val[3] = 20
       /\ result.ret.val[4] = 28
       /\ result.ret.val[5] = 50
       /\ result.ret.val[6] = 82
       /\ result.ret.val[7] = 126

C20_Witness ==
    /\ Returned({"magic_numbers"})
    /\ result.ret.kind = "list"
    /\ result.ret.val[4] = 28

\* The (A, Z) pairs valley_of_stability is to evaluate from (A, Z) on, up
\* to mass number A_max: Z in 1..A-1 for each A in turn.
RECURSIVE PairsFrom(_, _, _)
PairsFrom(A, Z, A_max) ==
    IF A > A_max THEN <<>>
    ELSE IF Z >= A THEN PairsFrom(A + 1, 1, A_max)
    ELSE <<<<"semi_empirical_mass_formula", A, Z>>>> \o PairsFrom(A, Z + 1, A_max)

\* C21: every call of the searches ends.  A drip-line search probes mass
\* numbers Z, Z+1, ... in this order, each once, at most the 300 - Z of
\* Z..299 (a probe evaluates the parent's binding energy and then the
\* daughter's); valley_of_stability evaluates the mass of each (A, Z) with A
\* in the range and Z in 1..A-1 once, and nothing else.
C21_SearchesAreBounded ==
    /\ Returned({"neutron_drip_line", "proton_drip_line"})
       => LET n == Len(result.evals)
              probes == (n + 1) \div 2
              k == IF call.op = "neutron_drip_line" THEN 0 ELSE 1
          IN  /\ result.ret.kind \in {"int", "raise"}
              /\ probes <= (IF call.Z < 300 THEN 300 - call.Z ELSE 0)
              /\ \A i \in 1..n :
                    result.evals[i] =
                        IF i % 2 = 1
                        THEN <<"binding_energy_semf", call.Z + (i - 1) \div 2, call.Z>>
                        ELSE <<"binding_energy_semf", call.Z + (i - 2) \div 2 - 1, call.Z - k>>
    /\ Returned({"valley_of_stability"})
       => /\ result.ret.kind = "list"
          /\ result.evals = PairsFrom(call.A_range[1], 1, call.A_range[2])

C21_Witness ==
    /\ Returned({"neutron_drip_line"})
    /\ call.Z = HeavyZ
    /\ result.ret = IntV(300)
    /\ Len(result.evals) = 2 * (300 - HeavyZ)

\* C25: a result r other than 300 of a drip-line search is A* - 1 where A*
\* is the least A in Z..299 with a separation energy <= 0: the energy is
\* > 0 at every A of Z..A*-1 and <= 0 at A*, and no mass number above A* is
\* examined, whatever the separation energy does there.
C25_FirstCrossingRule ==
    (/\ Returned({"neutron_drip_line", "proton_drip_line"})
     /\ result.ret.kind = "int"
     /\ result.ret.val # 300)
    => LET crossing == result.ret.val + 1
       IN  /\ crossing \in call.Z..299
           /\ Probe(crossing).kind = "float"
           /\ Probe(crossing).val <= 0
           /\ \A A \in call.Z..(crossing - 1) :
                 Probe(A).kind = "float" /\ Probe(A).val > 0
           /\ \A i \in DOMAIN result.evals : result.evals[i][2] <= crossing

C25_Witness ==
    /\ Returned({"proton_drip_line"})
    /\ call.Z = 2
    /\ result.ret = IntV(1)
    /\ Probe(3).kind = "float"
    /\ Probe(3).val > 0

\* C24: for A >= 1 and 0 <= Z <= A, pairing_energy(A, Z) is
\* pairing_energy(A, A - Z); pairing_energy(4, 2) > 0 and
\* pairing_energy(5, 2) = 0.
C24_PairingSymmetricUnderSwap ==
    (/\ Returned({"pairing_energy"})
     /\ call.A >= 1
     /\ call.Z \in 0..call.A)
    => /\ IsNumber(result.ret)
       /\ result.ret = pairing_energy(call.A, call.A - call.Z)
       /\ (call.A = 4 /\ call.Z = 2) => result.ret.val > 0
       /\ (call.A = 5 /\ call.Z = 2) => result.ret.val = 0

C24_Witness ==
    /\ Returned({"pairing_energy"})
    /\ call.A = 5
    /\ call.Z = 2
    /\ result.ret = IntV(0)
    /\ pairing_energy(5, 3) = IntV(0)

\* C26: for every A >= 1 and every integer Z, in 0..A or not, the pairing
\* term is 0 exactly when A is odd, and +-11.18/sqrt(A) when A is even.
C26_PairingZeroIffOddA ==
    (/\ Returned({"pairing_energy", "binding_energy_semf", "semi_empirical_mass_formula"})
     /\ call.A >= 1)
    => LET magnitude == ScaleDiv(11180, 3, sqrt(call.A))
       IN  /\ IsNumber(result.delta)
           /\ result.delta.val = 0 <=> Odd(call.A)
           /\ Even(call.A) => result.delta.val \in {magnitude, -magnitude}
           /\ magnitude > 0

C26_Witness ==
    /\ Returned({"binding_energy_semf"})
    /\ call.A = 4
    /\ call.Z = -1
    /\ result.delta.val < 0

\* C27: for every mass number A >= 1, atomic_number_from_mass(A), the
\* proton number binding_energy and mass_defect take, is an integer Z with
\* 0 <= Z <= A, so the neutron number A - Z they use is not negative.
C27_ApproximateZWithinMassNumber ==
    (/\ Returned({"atomic_number_from_mass"})
     /\ call.mass_number >= 1)
    => /\ result.ret.kind = "int"
       /\ result.ret.val \in 0..call.mass_number
       /\ call.mass_number - result.ret.val >= 0

C27_Witness ==
    /\ Returned({"atomic_number_from_mass"})
    /\ call.mass_number = 55
    /\ result.ret = IntV(24)

\* C28: valley_of_stability raises nothing and evaluates no mass for a mass
\* number A <= 1 of its range; the entry of such an A is the default 1; and
\* with A_min > A_max the result is the empty list.
C28_ValleyDefaultsForLightMassNumbers ==
    Returned({"valley_of_stability"})
    => /\ result.ret.kind = "list"
       /\ \A i \in DOMAIN result.evals : result.evals[i][2] >= 2
       /\ \A A \in call.A_range[1]..call.A_range[2] :
             A <= 1 => result.ret.val[A - call.A_range[1] + 1] = 1
       /\ call.A_range[1] > call.A_range[2] => result.ret.val = <<>>

C28_Witness ==
    /\ Returned({"valley_of_stability"})
    /\ call.A_range = <<-1, 2>>
    /\ result.ret.val = <<1, 1, 1, 1>>
    /\ result.evals = <<<<"semi_empirical_mass_formula", 2, 1>>>>

\* C30: for A >= 3, when BE(A,Z), BE(A-1,Z) and BE(A-2,Z) are all defined,
\* two_neutron_separation_energy(A, Z) is separation_energy(A, Z, 'neutron')
\* + separation_energy(A-1, Z, 'neutron'), and both are BE(A,Z) - BE(A-2,Z).
C30_TwoNeutronSeparationTelescopes ==
    (/\ Returned({"two_neutron_separation_energy"})
     /\ call.A >= 3
     /\ call.Z \in 0..call.A)
    => LET S_n == separation_energy(call.A, call.Z, "neutron").ret
           S_n_below == separation_energy(call.A - 1, call.Z, "neutron").ret
           BE_initial == binding_energy_semf(call.A, call.Z)
           BE_final == binding_energy_semf(call.A - 2, call.Z)
       IN  /\ S_n.kind = "float"
           /\ S_n_below.kind = "float"
           /\ result.ret = Float(S_n.val + S_n_below.val)
           /\ result.ret = Float(BE_initial.val - BE_final.val)

C30_Witness ==
    /\ Returned({"two_neutron_separation_energy"})
    /\ call.A = 4
    /\ call.Z = 2
    /\ result.ret.kind = "float"
    /\ Distance(result.ret.val, 60453) <= 40

\* The outcome of a call with the arguments of the call a caller kept.
Repeated == pc \in {"returned", "mutated"} /\ earlier.call = call

Original(nucleus) == Item(NUCLEAR_DATA_literal, nucleus).items

\* C29: whatever callers have written into the records and lists they were
\* returned, the table is the literal one, get_nuclear_data(name) returns
\* the original A, Z and mass in an object of its own, magic_numbers()
\* returns [2, 8, 20, 28, 50, 82, 126] in an object of its own, and
\* is_magic_nucleus answers as the magic numbers say.
C29_ReturnedContainersAreFresh ==
    /\ NUCLEAR_DATA = NUCLEAR_DATA_literal
    /\ (/\ pc \in {"returned", "mutated"}
        /\ call.op = "get_nuclear_data"
        /\ In(call.nucleus, Keys(NUCLEAR_DATA_literal)))
       => /\ result.ret.val = Original(call.nucleus)
          /\ result.ret.id = ""
    /\ (pc \in {"returned", "mutated"} /\ call.op = "magic_numbers")
       => /\ result.ret.val = <<2, 8, 20, 28, 50, 82, 126>>
          /\ result.ret.id = ""
    /\ (pc \in {"returned", "mutated"} /\ call.op = "is_magic_nucleus")
       => result.ret = BoolV(IsMagic(call.Z) \/ IsMagic(call.A - call.Z))
    /\ (Repeated /\ earlier.held # NoneV) => result = earlier.result

C29_Witness ==
    /\ Returned({"get_nuclear_data"})
    /\ call.nucleus = "He-4"
    /\ earlier.call = call
    /\ earlier.held.kind = "dict"
    /\ In(<<"mass", 0>>, earlier.held.val)
    /\ In(<<"mass", 4002603>>, result.ret.val)

\* The outcome of thread t's call when it runs alone.
Alone(c) ==
    IF c.op = "get_nuclear_data" THEN get_nuclear_data(c.nucleus)
    ELSE valley_of_stability(c.A_range)

\* C23: under every interleaving of get_nuclear_data and valley_of_stability
\* calls from several threads, with the threads writing into what they were
\* returned, each call returns the outcome it has when run alone, and
\* NUCLEAR_DATA is the table literal throughout.
C23_ConcurrentCallsAsAlone ==
    /\ NUCLEAR_DATA = NUCLEAR_DATA_literal
    /\ \A t \in Threads :
          threads[t].at \in {"done", "mutated"}
          => threads[t].ret = Alone(threads[t].call)

C23_Witness ==
    /\ threads[1].at = "done"
    /\ threads[1].call = [op |-> "valley_of_stability", A_range |-> <<2, 3>>]
    /\ threads[1].ret.ret.val = <<1, 1>>
    /\ Len(threads[1].ret.evals) = 3
    /\ threads[2].at = "mutated"
    /\ threads[2].call.op = "get_nuclear_data"
    /\ In(<<"A", 0>>, threads[2].held.val)
    /\ NUCLEAR_DATA = NUCLEAR_DATA_literal

====
